---- MODULE Spec2Model ----
(***************************************************************************)
(* A model of the two PRM engines of promptitecture:                       *)
(*   LocalPlanner (src/src/javascript/prm/LocalPlanner.js) and             *)
(*   PathRanker   (src/src/javascript/prm/PathRanker.js).                  *)
(*                                                                         *)
(* JavaScript numbers are modelled as exact rationals [n, d] in lowest     *)
(* terms with d > 0; the record with d = 0 stands for `undefined`.         *)
(***************************************************************************)
EXTENDS Integers, Sequences, FiniteSets, TLC

VARIABLES
    pc,                    \* which call is running and where it stands
    options,               \* LocalPlanner: this.options
    rankerOptions,         \* PathRanker: this.options
    paths, rankOpts,       \* rank / sensitivityAnalysis: their arguments
    ranked,                \* rank: its return value, handed on as rankedPaths
    pathA, pathB,          \* compare: its arguments
    weightVariations,      \* sensitivityAnalysis: its second argument
    minScore,              \* filter: its second argument
    maxDistance,           \* canConnect: its third argument
    output,                \* return value of the other operations
    given,                 \* the arguments of the running call as they were handed in
    configA, configB,      \* plan: its arguments
    architecture,          \* plan / optimizePath: the architecture argument
    waypoints,             \* plan: const waypoints
    i,                     \* plan: loop index (0-based, as in the code)
    isValid, totalCost, cumulativeProbability,   \* plan: its locals
    result,                \* plan: its return value
    inWaypoints,           \* optimizePath: the waypoints argument
    optimized, current, farthest, oi,            \* optimizePath: its locals
    promise                \* optimizePath: const result (what this.plan returned)

vars == <<pc, options, rankerOptions, paths, rankOpts, ranked, pathA, pathB,
          weightVariations, minScore, maxDistance, output, given, configA, configB,
          architecture, waypoints, i, isValid, totalCost, cumulativeProbability,
          result, inWaypoints, optimized, current, farthest, oi, promise>>

rankVars == <<paths, rankOpts, ranked, pathA, pathB, weightVariations, minScore,
              output>>
planVars == <<configA, configB, maxDistance, waypoints, i, isValid, totalCost,
              cumulativeProbability, result>>
optVars  == <<inWaypoints, optimized, current, farthest, oi, promise>>

-----------------------------------------------------------------------------
(* Bounds of the model *)

MaxPaths == 3          \* longest path list handed to rank
MaxWaypoints == 3      \* longest waypoint list handed to optimizePath

-----------------------------------------------------------------------------
(* JavaScript numbers as rationals *)

RECURSIVE GCD(_, _)
GCD(a, b) == IF b = 0 THEN a ELSE GCD(b, a % b)

Abs(x) == IF x < 0 THEN -x ELSE x

Rat(n, d) ==
    LET g == GCD(Abs(n), Abs(d))
        s == IF d < 0 THEN -1 ELSE 1
    IN  [n |-> (s * n) \div g, d |-> (s * d) \div g]

Num(k) == [n |-> k, d |-> 1]

Undefined == [n |-> 0, d |-> 0]

RAdd(x, y) == Rat(x.n * y.d + y.n * x.d, x.d * y.d)
RSub(x, y) == Rat(x.n * y.d - y.n * x.d, x.d * y.d)
RMul(x, y) == Rat(x.n * y.n, x.d * y.d)
RDiv(x, y) == Rat(x.n * y.d, x.d * y.n)
RLt(x, y)  == x.n * y.d < y.n * x.d
RLe(x, y)  == x.n * y.d <= y.n * x.d
RAbs(x)    == [n |-> Abs(x.n), d |-> x.d]
RMin2(x, y) == IF RLe(x, y) THEN x ELSE y
RMax2(x, y) == IF RLe(x, y) THEN y ELSE x

\* Math.min(...xs) and Math.max(...xs) over a non-empty sequence
RECURSIVE MathMin(_)
MathMin(xs) == IF Len(xs) = 1 THEN xs[1] ELSE RMin2(xs[1], MathMin(Tail(xs)))

RECURSIVE MathMax(_)
MathMax(xs) == IF Len(xs) = 1 THEN xs[1] ELSE RMax2(xs[1], MathMax(Tail(xs)))

\* Math.round(x): the integer nearest x, halves rounded up
MathRound(x) == (2 * x.n + x.d) \div (2 * x.d)

\* v || dflt : undefined and 0 are falsy
OrElse(v, dflt) == IF v = Undefined \/ v.n = 0 THEN dflt ELSE v

-----------------------------------------------------------------------------
(* PathRanker *)

DefaultWeights ==
    [probability |-> Rat(35, 100), cost |-> Rat(30, 100),
     length |-> Rat(15, 100), entropy |-> Rat(20, 100)]

\* constructor(options = {}): weights default, overridden by ...options
RankerConstruct(opts) ==
    IF opts.weights = Undefined THEN [weights |-> DefaultWeights]
    ELSE [weights |-> opts.weights]

Normalize_Unshifted(value, min, max) ==
    IF max = min THEN Rat(1, 2) ELSE RDiv(value, RSub(max, min))

\* _normalize(value, min, max)
Normalize(value, min, max) ==
    IF max = min THEN Rat(1, 2) ELSE RDiv(RSub(value, min), RSub(max, min))

Column(allPaths, f, dflt) ==
    [k \in 1..Len(allPaths) |-> OrElse(allPaths[k].metrics[f], dflt)]

\* const ranges = {...}
Ranges(allPaths) ==
    [probability |-> [min |-> MathMin(Column(allPaths, "pathProbability", Num(0))),
                      max |-> MathMax(Column(allPaths, "pathProbability", Num(1)))],
     cost        |-> [min |-> MathMin(Column(allPaths, "totalCost", Num(0))),
                      max |-> MathMax(Column(allPaths, "totalCost", Num(1000)))],
     length      |-> [min |-> MathMin(Column(allPaths, "pathLength", Num(1))),
                      max |-> MathMax(Column(allPaths, "pathLength", Num(10)))],
     entropy     |-> [min |-> MathMin(Column(allPaths, "entropy", Num(0))),
                      max |-> MathMax(Column(allPaths, "entropy", Num(5)))]]

\* _normalizeMetrics(metrics, allPaths)
NormalizeMetrics(metrics, allPaths) ==
    LET ranges == Ranges(allPaths) IN
    [probability |-> Normalize(OrElse(metrics.pathProbability, Num(0)),
                               ranges.probability.min, ranges.probability.max),
     cost        |-> RSub(Num(1), Normalize(OrElse(metrics.totalCost, Num(0)),
                               ranges.cost.min, ranges.cost.max)),
     length      |-> RSub(Num(1), Normalize(OrElse(metrics.pathLength, Num(1)),
                               ranges.length.min, ranges.length.max)),
     entropy     |-> RSub(Num(1), Normalize(OrElse(metrics.entropy, Num(0)),
                               ranges.entropy.min, ranges.entropy.max))]

\* _calculateCompositeScore(normalized, weights)
CalculateCompositeScore(normalized, weights) ==
    RAdd(RAdd(RAdd(RMul(normalized.probability, weights.probability),
                   RMul(normalized.cost, weights.cost)),
              RMul(normalized.length, weights.length)),
         RMul(normalized.entropy, weights.entropy))

\* probability > bound, false when probability is undefined
Above(probability, bound) == probability # Undefined /\ RLt(bound, probability)

CalculateReliability_Inclusive(probability) ==
    [score |-> probability,
     level |-> IF probability # Undefined /\ RLe(Rat(8, 10), probability) THEN "high"
               ELSE IF probability # Undefined /\ RLe(Rat(5, 10), probability)
                    THEN "medium" ELSE "low"]

\* _calculateReliability(probability)
CalculateReliability(probability) ==
    [score |-> probability,
     level |-> IF Above(probability, Rat(8, 10)) THEN "high"
               ELSE IF Above(probability, Rat(5, 10)) THEN "medium" ELSE "low"]

\* _generateRecommendation(score, reliability)
GenerateRecommendation(score, reliability) ==
    IF RLt(Rat(8, 10), score) /\ reliability.level = "high" THEN "recommend"
    ELSE IF RLt(Rat(6, 10), score) /\ reliability.level # "low" THEN "consider"
    ELSE "avoid"

\* the callback of paths.map in rank
RankItem(pathData, allPaths, weights) ==
    LET normalized == NormalizeMetrics(pathData.metrics, allPaths)
        compositeScore == CalculateCompositeScore(normalized, weights)
        reliability == CalculateReliability(pathData.metrics.pathProbability)
    IN  [rank |-> 0,
         path |-> pathData.path,
         metrics |-> [pathProbability |-> pathData.metrics.pathProbability,
                      totalCost |-> pathData.metrics.totalCost,
                      pathLength |-> pathData.metrics.pathLength,
                      entropy |-> pathData.metrics.entropy,
                      normalized |-> normalized,
                      reliability |-> reliability],
         compositeScore |-> compositeScore,
         recommendation |-> GenerateRecommendation(compositeScore, reliability)]

\* one insertion of a stable sort: x goes after every item the comparator
\* (b.compositeScore - a.compositeScore) does not put behind it
RECURSIVE InsertAscending(_, _)
InsertAscending(x, sorted) ==
    IF sorted = <<>> THEN <<x>>
    ELSE IF RLt(x.compositeScore, sorted[1].compositeScore)
         THEN <<x>> \o sorted
         ELSE <<sorted[1]>> \o InsertAscending(x, Tail(sorted))

RECURSIVE InsertDescending_BeforeEquals(_, _)
InsertDescending_BeforeEquals(x, sorted) ==
    IF sorted = <<>> THEN <<x>>
    ELSE IF RLe(sorted[1].compositeScore, x.compositeScore)
         THEN <<x>> \o sorted
         ELSE <<sorted[1]>> \o InsertDescending_BeforeEquals(x, Tail(sorted))

RECURSIVE InsertDescending(_, _)
InsertDescending(x, sorted) ==
    IF sorted = <<>> THEN <<x>>
    ELSE IF RLt(sorted[1].compositeScore, x.compositeScore)
         THEN <<x>> \o sorted
         ELSE <<sorted[1]>> \o InsertDescending(x, Tail(sorted))

RECURSIVE SortByScore_Ascending(_)
SortByScore_Ascending(items) ==
    IF items = <<>> THEN <<>>
    ELSE InsertAscending(items[Len(items)],
                         SortByScore_Ascending(SubSeq(items, 1, Len(items) - 1)))

\* ranked.sort((a, b) => b.compositeScore - a.compositeScore), a stable sort
RECURSIVE SortByScore(_)
SortByScore(items) ==
    IF items = <<>> THEN <<>>
    ELSE InsertDescending(items[Len(items)],
                          SortByScore(SubSeq(items, 1, Len(items) - 1)))

\* ranked.forEach((item, idx) => { item.rank = idx + 1 })
AssignRanks(items) ==
    [k \in 1..Len(items) |-> [items[k] EXCEPT !.rank = k]]

\* rank(paths, options = {})
RankOp(ps, opts, self) ==
    LET weights == IF opts.weights = Undefined THEN self.weights ELSE opts.weights
        mapped == [k \in 1..Len(ps) |-> RankItem(ps[k], ps, weights)]
    IN  AssignRanks(SortByScore(mapped))

\* items.find(r => r.path === path), looking from position k on
RECURSIVE FindByPath(_, _, _)
FindByPath(items, path, k) ==
    IF k > Len(items) THEN Undefined
    ELSE IF items[k].path = path THEN items[k]
    ELSE FindByPath(items, path, k + 1)

BaseRanking_Defaults(ps, self) == RankOp(ps, [weights |-> DefaultWeights], self)

\* const baseRanking = this.rank(paths)
BaseRanking(ps, self) == RankOp(ps, [weights |-> Undefined], self)

\* baseRanking.map((basePath, idx) => {...}) in sensitivityAnalysis
RankChanges(baseRanking, variedRanking) ==
    [k \in 1..Len(baseRanking) |->
        LET basePath == baseRanking[k]
            variedPath == FindByPath(variedRanking, basePath.path, 1)
        IN  [path |-> basePath.path,
             baseRank |-> basePath.rank,
             variedRank |-> variedPath.rank,
             change |-> variedPath.rank - basePath.rank]]

\* Math.max(...rankChanges.map(c => Math.abs(c.change))), rankChanges not empty
MaxChange(rankChanges) ==
    MathMax([k \in 1..Len(rankChanges) |-> Num(Abs(rankChanges[k].change))])

\* the callback of weightVariations.map in sensitivityAnalysis
Analysis(ps, weights, baseRanking, self) ==
    LET variedRanking == RankOp(ps, [weights |-> weights], self)
        rankChanges == RankChanges(baseRanking, variedRanking)
    IN  [weights |-> weights,
         ranking |-> variedRanking,
         rankChanges |-> rankChanges,
         maxChange |-> MaxChange(rankChanges)]

\* analyses.reduce((sum, a) => sum + a.maxChange, 0)
RECURSIVE SumMaxChange(_)
SumMaxChange(analyses) ==
    IF analyses = <<>> THEN Num(0)
    ELSE RAdd(SumMaxChange(SubSeq(analyses, 1, Len(analyses) - 1)),
              analyses[Len(analyses)].maxChange)

\* _calculateStability(analyses)
CalculateStability(analyses) ==
    IF Len(analyses) = 0 THEN Num(1)
    ELSE LET avgMaxChange == RDiv(SumMaxChange(analyses), Num(Len(analyses)))
         IN  RMax2(Num(0), RSub(Num(1), RDiv(avgMaxChange, Num(10))))

\* sensitivityAnalysis(paths, weightVariations = []), paths not empty
SensitivityAnalysisOp(ps, variations, self) ==
    LET baseRanking == BaseRanking(ps, self)
        analyses == [k \in 1..Len(variations) |->
                        Analysis(ps, variations[k], baseRanking, self)]
    IN  [baseRanking |-> baseRanking,
         analyses |-> analyses,
         stability |-> CalculateStability(analyses)]

WinnerLabel_Swapped(winner, pA) == IF winner.path = pA.path THEN "B" ELSE "A"

\* winner.path === pathA.path ? 'A' : 'B'
WinnerLabel(winner, pA) == IF winner.path = pA.path THEN "A" ELSE "B"

\* compare(pathA, pathB)
CompareOp(pA, pB, self) ==
    LET rankedPaths == RankOp(<<pA, pB>>, [weights |-> Undefined], self)
        winner == rankedPaths[1]
        diff == RAbs(RSub(rankedPaths[1].compositeScore,
                          rankedPaths[2].compositeScore))
    IN  [winner |-> WinnerLabel(winner, pA),
         scoreDifference |-> diff,
         significant |-> RLt(Rat(1, 10), diff),
         details |-> [pathA |-> FindByPath(rankedPaths, pA.path, 1),
                      pathB |-> FindByPath(rankedPaths, pB.path, 1)]]

\* rankedPaths.filter(p => p.compositeScore >= minScore)
RECURSIVE FilterByScore(_, _)
FilterByScore(rankedPaths, min) ==
    IF rankedPaths = <<>> THEN <<>>
    ELSE IF RLe(min, rankedPaths[1].compositeScore)
         THEN <<rankedPaths[1]>> \o FilterByScore(Tail(rankedPaths), min)
         ELSE FilterByScore(Tail(rankedPaths), min)

\* filter(rankedPaths, minScore = 0.5)
FilterOp(rankedPaths, min) ==
    FilterByScore(rankedPaths, IF min = Undefined THEN Rat(5, 10) ELSE min)

\* rankedPaths.filter(p => p.metrics.reliability.level === level)
RECURSIVE FilterByLevel(_, _)
FilterByLevel(rankedPaths, level) ==
    IF rankedPaths = <<>> THEN <<>>
    ELSE IF rankedPaths[1].metrics.reliability.level = level
         THEN <<rankedPaths[1]>> \o FilterByLevel(Tail(rankedPaths), level)
         ELSE FilterByLevel(Tail(rankedPaths), level)

\* groupByReliability(rankedPaths)
GroupByReliabilityOp(rankedPaths) ==
    [high |-> FilterByLevel(rankedPaths, "high"),
     medium |-> FilterByLevel(rankedPaths, "medium"),
     low |-> FilterByLevel(rankedPaths, "low")]

\* x.toFixed(digits) for x >= 0 with scale = 10^digits, as the rounded number;
\* NaN (the record with d = 0) prints as NaN
ToFixed(x, scale) ==
    IF x = Undefined THEN Undefined
    ELSE Rat((2 * x.n * scale + x.d) \div (2 * x.d), scale)

\* the label of _calculateReliability, without its leading symbol
ReliabilityLabel(level) ==
    IF level = "high" THEN "Alta" ELSE IF level = "medium" THEN "Media" ELSE "Baja"

\* the message of _generateRecommendation, without its leading symbol
RecommendationMessage(action) ==
    IF action = "recommend" THEN "Ruta optima recomendada"
    ELSE IF action = "consider" THEN "Ruta viable, considerar"
    ELSE "Ruta suboptima, evitar"

\* undefined.toFixed(...) raises a TypeError
RowThrows(item) ==
    item.metrics.totalCost = Undefined \/ item.metrics.entropy = Undefined

\* the callback of rankedPaths.map in generateComparisonTable; a formatted
\* cell is the pair of its number and its suffix
ComparisonRow(item) ==
    [rank |-> item.rank,
     pathId |-> item.path.id,
     probability |->
        <<ToFixed(IF item.metrics.pathProbability = Undefined THEN Undefined
                  ELSE RMul(item.metrics.pathProbability, Num(100)), 10), "%">>,
     cost |-> <<ToFixed(item.metrics.totalCost, 1), " tokens">>,
     length |-> <<item.metrics.pathLength, " hops">>,
     entropy |-> <<ToFixed(item.metrics.entropy, 100), " bits">>,
     reliability |-> ReliabilityLabel(item.metrics.reliability.level),
     score |-> ToFixed(RMul(item.compositeScore, Num(100)), 10),
     recommendation |-> RecommendationMessage(item.recommendation)]

\* generateComparisonTable(rankedPaths), no row raising
GenerateComparisonTable(rankedPaths) ==
    [k \in 1..Len(rankedPaths) |-> ComparisonRow(rankedPaths[k])]

\* rankedPaths.reduce((sum, p) => sum + p.compositeScore, 0)
RECURSIVE SumScores(_)
SumScores(rankedPaths) ==
    IF rankedPaths = <<>> THEN Num(0)
    ELSE RAdd(SumScores(SubSeq(rankedPaths, 1, Len(rankedPaths) - 1)),
              rankedPaths[Len(rankedPaths)].compositeScore)

\* export(rankedPaths) raises when a row of the table does
ExportThrows(rankedPaths) ==
    \E k \in 1..Len(rankedPaths) : RowThrows(rankedPaths[k])

\* export(rankedPaths) at the instant now; 0 / 0 is NaN
ExportOp(rankedPaths, now, self) ==
    [timestamp |-> now,
     numPaths |-> Len(rankedPaths),
     weights |-> self.weights,
     rankings |-> GenerateComparisonTable(rankedPaths),
     summary |->
        [bestPath |-> IF rankedPaths = <<>> THEN Undefined ELSE rankedPaths[1],
         averageScore |->
            IF rankedPaths = <<>> THEN Undefined
            ELSE RDiv(SumScores(rankedPaths), Num(Len(rankedPaths))),
         reliabilityDistribution |-> GroupByReliabilityOp(rankedPaths)]]

-----------------------------------------------------------------------------
(* LocalPlanner *)

\* constructor(options = {}): each default gives way to a key the caller passes
PlannerConstruct(opts) ==
    [interpolationSteps |->
        IF opts.interpolationSteps = Undefined THEN 5
        ELSE opts.interpolationSteps.n,
     collisionCheckEnabled |->
        IF opts.collisionCheckEnabled = "undefined" THEN TRUE
        ELSE opts.collisionCheckEnabled = "true",
     maxTransitionCost |->
        IF opts.maxTransitionCost = Undefined THEN Num(500)
        ELSE opts.maxTransitionCost]

\* array.includes(x)
Includes(seq, x) == \E k \in 1..Len(seq) : seq[k] = x

PushNew_Always(hybrid, x) == Append(hybrid, x)

\* if (!hybrid.includes(x)) hybrid.push(x)
PushNew(hybrid, x) == IF Includes(hybrid, x) THEN hybrid ELSE Append(hybrid, x)

\* the for loop of _interpolateSequence from position k (0-based) on;
\* rnd[k] is the outcome of Math.random() > t at position k
RECURSIVE BlendFrom(_, _, _, _, _)
BlendFrom(seqA, seqB, rnd, k, hybrid) ==
    LET maxLen == IF Len(seqA) >= Len(seqB) THEN Len(seqA) ELSE Len(seqB) IN
    IF k >= maxLen THEN hybrid
    ELSE BlendFrom(seqA, seqB, rnd, k + 1,
            IF k < Len(seqA) /\ rnd[k] THEN PushNew(hybrid, seqA[k + 1])
            ELSE IF k < Len(seqB) THEN PushNew(hybrid, seqB[k + 1])
            ELSE hybrid)

\* _interpolateSequence(seqA, seqB, t), Math.random() drawing rnd
InterpolateSequence(seqA, seqB, t, rnd) ==
    IF t = Num(0) THEN seqA
    ELSE IF t = Num(1) THEN seqB
    ELSE LET hybrid == BlendFrom(seqA, seqB, rnd, 0, <<>>)
             withInput == IF Includes(hybrid, "Input") THEN hybrid
                          ELSE <<"Input">> \o hybrid
         IN  IF Includes(withInput, "Output") THEN withInput
             ELSE Append(withInput, "Output")

\* every sequence _interpolateSequence can return for seqA, seqB and t
Blends(seqA, seqB, t) ==
    LET maxLen == IF Len(seqA) >= Len(seqB) THEN Len(seqA) ELSE Len(seqB) IN
    { InterpolateSequence(seqA, seqB, t, rnd) : rnd \in [0..(maxLen - 1) -> BOOLEAN] }

\* _lerp(a, b, t)
Lerp(a, b, t) == RAdd(RMul(a, RSub(Num(1), t)), RMul(b, t))

\* the object built in the loop body of _interpolate; layerSequence is what
\* _interpolateSequence returned for this t
Waypoint(cA, cB, idx, steps, layerSequence) ==
    LET t == Rat(idx, steps) IN
    [id |-> idx,
     layerSequence |-> layerSequence,
     confidenceThreshold |-> Lerp(cA.confidenceThreshold, cB.confidenceThreshold, t),
     parallelizationFactor |->
        MathRound(Lerp(Num(cA.parallelizationFactor), Num(cB.parallelizationFactor), t)),
     processingMode |-> IF RLt(t, Rat(1, 2)) THEN cA.processingMode
                        ELSE cB.processingMode,
     tokenCost |-> MathRound(Lerp(OrElse(cA.tokenCost, Num(0)),
                                  OrElse(cB.tokenCost, Num(0)), t))]

\* _interpolate(configA, configB): every waypoints array it can return,
\* built from index idx on
RECURSIVE InterpolateFrom(_, _, _, _)
InterpolateFrom(cA, cB, steps, idx) ==
    IF idx > steps THEN { <<>> }
    ELSE { <<Waypoint(cA, cB, idx, steps, ls)>> \o rest :
             ls \in Blends(cA.layerSequence, cB.layerSequence, Rat(idx, steps)),
             rest \in InterpolateFrom(cA, cB, steps, idx + 1) }

Interpolate(cA, cB, steps) == InterpolateFrom(cA, cB, steps, 0)

\* architecture.constraints?.field
Constraint_ZeroWhenAbsent(arch, field) ==
    IF arch.constraints = Undefined THEN Num(0)
    ELSE IF arch.constraints[field] = Undefined THEN Num(0)
    ELSE arch.constraints[field]

\* architecture.constraints?.field
Constraint(arch, field) ==
    IF arch.constraints = Undefined THEN Undefined ELSE arch.constraints[field]

\* dependencies[current] || []
DepsOf(arch, layer) ==
    IF arch.layerDependencies = Undefined THEN <<>>
    ELSE IF layer \in DOMAIN arch.layerDependencies
         THEN arch.layerDependencies[layer] ELSE <<>>

\* _isLayerSequenceValid(sequence, architecture)
IsLayerSequenceValid(sequence, arch) ==
    /\ Includes(sequence, "Input")
    /\ Includes(sequence, "Output")
    /\ \A k \in 2..Len(sequence) :
          LET deps == DepsOf(arch, sequence[k]) IN
          \A d \in 1..Len(deps) : Includes(SubSeq(sequence, 1, k - 1), deps[d])

\* _isValid(config, architecture); a comparison with undefined is false
IsValidConfig(config, arch) ==
    /\ IsLayerSequenceValid(config.layerSequence, arch)
    /\ ~ ( /\ Constraint(arch, "maxTokens") # Undefined
           /\ RLt(Constraint(arch, "maxTokens"), Num(config.tokenCost)) )
    /\ ~ ( /\ Constraint(arch, "minConfidence") # Undefined
           /\ RLt(config.confidenceThreshold, Constraint(arch, "minConfidence")) )

ComputeTransitionCost_Signed(wp1, wp2) ==
    RAdd(RAdd(RAdd(Num((Len(wp1.layerSequence) - Len(wp2.layerSequence)) * 50),
                   IF wp1.processingMode # wp2.processingMode THEN Num(100) ELSE Num(0)),
              RMul(RAbs(RSub(wp1.confidenceThreshold, wp2.confidenceThreshold)), Num(80))),
         Num(30))

\* _computeTransitionCost(wp1, wp2, architecture)
ComputeTransitionCost(wp1, wp2) ==
    RAdd(RAdd(RAdd(Num(Abs(Len(wp1.layerSequence) - Len(wp2.layerSequence)) * 50),
                   IF wp1.processingMode # wp2.processingMode THEN Num(100) ELSE Num(0)),
              RMul(RAbs(RSub(wp1.confidenceThreshold, wp2.confidenceThreshold)), Num(80))),
         Num(30))

\* _configDistance(configA, configB)
ConfigDistance(cA, cB) ==
    LET la == Len(cA.layerSequence)
        lb == Len(cB.layerSequence)
        maxLen == IF la >= lb THEN la ELSE lb
        seqDiff == Rat(Abs(la - lb), maxLen)
        confDiff == RAbs(RSub(cA.confidenceThreshold, cB.confidenceThreshold))
        parDiff == Rat(Abs(cA.parallelizationFactor - cB.parallelizationFactor), 4)
    IN  RAdd(RAdd(RMul(seqDiff, Num(40)), RMul(confDiff, Num(30))),
             RMul(parDiff, Num(30)))

\* canConnect(configA, configB, maxDistance = 50)
CanConnectOp(cA, cB, maxDist) ==
    RLe(ConfigDistance(cA, cB), IF maxDist = Undefined THEN Num(50) ELSE maxDist)

\* _layerCompatibility(seqA, seqB): Jaccard similarity of the token sets
LayerCompatibility(seqA, seqB) ==
    LET setA == { seqA[k] : k \in 1..Len(seqA) }
        setB == { seqB[k] : k \in 1..Len(seqB) }
    IN  Rat(Cardinality(setA \cap setB), Cardinality(setA \cup setB))

\* x rounded down to a multiple of 1/1000: the finite precision of a
\* probability (doubles round too, far finer)
Fix3(x) == Rat((x.n * 1000) \div x.d, 1000)

\* x >= 0 rounded up to thousandths, as an integer count of them
Ceil3(x) == (x.n * 1000 + x.d - 1) \div x.d

\* Math.exp(-x) for x >= 0, by the rational 1 / (1 + x + x^2/2) in
\* thousandths: 1 at x = 0, decreasing, below 1 for x > 0 and never negative
ExpNeg(x) ==
    LET q == Ceil3(x) IN
    Rat(2000000000 \div (2000000 + 2000 * q + q * q), 1000)

\* probability before the return of _computeTransitionProbability
UnclampedProbability(wp1, wp2, arch) ==
    LET distanceFactor == ExpNeg(RDiv(ConfigDistance(wp1, wp2), Num(50)))
        bonus == IF IsValidConfig(wp2, arch) THEN Rat(12, 10) ELSE Rat(3, 10)
        compatibility == LayerCompatibility(wp1.layerSequence, wp2.layerSequence)
        probability == RMul(RMul(distanceFactor, bonus), compatibility)
    IN  Fix3(probability)

Clamp_None(probability) == probability

\* Math.min(1.0, Math.max(0.0, probability))
Clamp(probability) == RMin2(Num(1), RMax2(Num(0), probability))

\* _computeTransitionProbability(wp1, wp2, architecture)
ComputeTransitionProbability(wp1, wp2, arch) ==
    Clamp(UnclampedProbability(wp1, wp2, arch))

-----------------------------------------------------------------------------
(* LocalPlanner.plan, one pass of its loop at a time *)

\* let isValid = true; let totalCost = 0; let cumulativeProbability = 1.0; i = 0
PlanEntry ==
    [i |-> 0, isValid |-> TRUE, totalCost |-> Num(0),
     cumulativeProbability |-> Num(1), broke |-> FALSE]

PlanIter_NoCollisionBreak(self, wps, arch, st) ==
    LET wp1 == wps[st.i + 1]
        wp2 == wps[st.i + 2]
        cost == RAdd(st.totalCost, ComputeTransitionCost(wp1, wp2))
        prob == Fix3(RMul(st.cumulativeProbability,
                          ComputeTransitionProbability(wp1, wp2, arch)))
    IN  IF RLt(self.maxTransitionCost, cost)
        THEN [i |-> st.i, isValid |-> FALSE, totalCost |-> cost,
              cumulativeProbability |-> prob, broke |-> TRUE]
        ELSE [i |-> st.i + 1, isValid |-> st.isValid, totalCost |-> cost,
              cumulativeProbability |-> prob, broke |-> FALSE]

PlanIter_NoCostBreak(self, wps, arch, st) ==
    LET wp1 == wps[st.i + 1]
        wp2 == wps[st.i + 2]
    IN  IF self.collisionCheckEnabled /\ ~ IsValidConfig(wp1, arch)
        THEN [st EXCEPT !.isValid = FALSE, !.broke = TRUE]
        ELSE [i |-> st.i + 1, isValid |-> st.isValid,
              totalCost |-> RAdd(st.totalCost, ComputeTransitionCost(wp1, wp2)),
              cumulativeProbability |->
                  Fix3(RMul(st.cumulativeProbability,
                            ComputeTransitionProbability(wp1, wp2, arch))),
              broke |-> FALSE]

\* the body of the for loop of plan at index st.i; broke: it left by break
PlanIter(self, wps, arch, st) ==
    LET wp1 == wps[st.i + 1]
        wp2 == wps[st.i + 2]
    IN  IF self.collisionCheckEnabled /\ ~ IsValidConfig(wp1, arch)
        THEN [st EXCEPT !.isValid = FALSE, !.broke = TRUE]
        ELSE LET cost == RAdd(st.totalCost, ComputeTransitionCost(wp1, wp2))
                 prob == Fix3(RMul(st.cumulativeProbability,
                                   ComputeTransitionProbability(wp1, wp2, arch)))
             IN  IF RLt(self.maxTransitionCost, cost)
                 THEN [i |-> st.i, isValid |-> FALSE, totalCost |-> cost,
                       cumulativeProbability |-> prob, broke |-> TRUE]
                 ELSE [i |-> st.i + 1, isValid |-> st.isValid, totalCost |-> cost,
                       cumulativeProbability |-> prob, broke |-> FALSE]

\* the loop condition i < waypoints.length - 1, and no break so far
PlanLooping(wps, st) == ~ st.broke /\ st.i < Len(wps) - 1

\* the whole for loop of plan
RECURSIVE PlanLoop(_, _, _, _)
PlanLoop(self, wps, arch, st) ==
    IF PlanLooping(wps, st) THEN PlanLoop(self, wps, arch, PlanIter(self, wps, arch, st))
    ELSE st

PlanReturn_KeepWaypoints(wps, st) ==
    [waypoints |-> wps, cost |-> st.totalCost,
     probability |-> st.cumulativeProbability, isValid |-> st.isValid,
     numSteps |-> Len(wps)]

\* return { waypoints: isValid ? waypoints : [], cost, probability, isValid, numSteps }
PlanReturn(wps, st) ==
    [waypoints |-> IF st.isValid THEN wps ELSE <<>>,
     cost |-> st.totalCost,
     probability |-> st.cumulativeProbability,
     isValid |-> st.isValid,
     numSteps |-> Len(wps)]

\* every value plan(configA, configB, architecture) can return
PlanResults(self, cA, cB, arch) ==
    { PlanReturn(wps, PlanLoop(self, wps, arch, PlanEntry)) :
        wps \in Interpolate(cA, cB, self.interpolationSteps) }

\* what calling the async function plan hands its caller: a settled promise
PromiseOf(value) == [state |-> "fulfilled", value |-> value]

\* result.isValid && result.cost < maxTransitionCost; a property the object
\* does not have reads as undefined, which is falsy
ShortcutAccepted(self, res) ==
    /\ "isValid" \in DOMAIN res
    /\ res.isValid
    /\ "cost" \in DOMAIN res
    /\ RLt(res.cost, self.maxTransitionCost)

-----------------------------------------------------------------------------
(* The inputs the calls are tried on *)

\* configuration A of the end-to-end example (no tokenCost given)
CfgA ==
    [layerSequence |-> <<"Input", "Perception", "Analysis", "Output">>,
     confidenceThreshold |-> Rat(8, 10), parallelizationFactor |-> 2,
     processingMode |-> "sequential", tokenCost |-> Undefined]

\* configuration B of the end-to-end example
CfgB ==
    [layerSequence |-> <<"Input", "Analysis", "Synthesis", "Output">>,
     confidenceThreshold |-> Rat(7, 10), parallelizationFactor |-> 1,
     processingMode |-> "parallel", tokenCost |-> Num(100)]

\* startConfig of the README: a sequence without Output
CfgStart ==
    [layerSequence |-> <<"Input", "Reasoning">>,
     confidenceThreshold |-> Rat(7, 10), parallelizationFactor |-> 1,
     processingMode |-> "sequential", tokenCost |-> Undefined]

\* A's layers, over the token limit and under the confidence limit
CfgHeavy ==
    [layerSequence |-> <<"Input", "Perception", "Analysis", "Output">>,
     confidenceThreshold |-> Rat(4, 10), parallelizationFactor |-> 4,
     processingMode |-> "sequential", tokenCost |-> Num(3000)]

\* A's layers in another mode
CfgPar ==
    [layerSequence |-> <<"Input", "Perception", "Analysis", "Output">>,
     confidenceThreshold |-> Rat(9, 10), parallelizationFactor |-> 1,
     processingMode |-> "parallel", tokenCost |-> Num(200)]

\* a sequence whose first layer has a dependency
CfgOdd ==
    [layerSequence |-> <<"Analysis", "Input", "Output">>,
     confidenceThreshold |-> Rat(6, 10), parallelizationFactor |-> 1,
     processingMode |-> "sequential", tokenCost |-> Num(2000)]

ConfigPairs ==
    { <<CfgA, CfgA>>, <<CfgA, CfgB>>, <<CfgB, CfgA>>, <<CfgStart, CfgStart>>,
      <<CfgA, CfgHeavy>>, <<CfgHeavy, CfgA>>, <<CfgA, CfgPar>>, <<CfgB, CfgB>>,
      <<CfgOdd, CfgOdd>> }

OptConfigs == { CfgA, CfgHeavy, CfgPar }

RECURSIVE SeqsUpTo(_, _)
SeqsUpTo(S, n) ==
    IF n = 0 THEN { <<>> }
    ELSE LET shorter == SeqsUpTo(S, n - 1) IN
         shorter \cup { Append(q, x) : q \in { r \in shorter : Len(r) = n - 1 }, x \in S }

WaypointLists == SeqsUpTo(OptConfigs, MaxWaypoints) \ { <<>> }

\* the architecture of the end-to-end example
ArchSpec ==
    [layerDependencies |-> [Synthesis |-> <<"Analysis">>, Analysis |-> <<"Perception">>],
     constraints |-> [maxTokens |-> Num(2000), minConfidence |-> Rat(5, 10)]]

\* an architecture with neither dependencies nor constraints
ArchFree == [layerDependencies |-> Undefined, constraints |-> Undefined]

\* an architecture with a constraints object that has no maxTokens
ArchPartial ==
    [layerDependencies |-> [Analysis |-> <<"Perception">>],
     constraints |-> [maxTokens |-> Undefined, minConfidence |-> Rat(3, 10)]]

Architectures == { ArchSpec, ArchFree }

\* the architectures handed to plan
PlanArchitectures == Architectures \cup { ArchPartial }

PlannerOptionSets ==
    { [interpolationSteps |-> Undefined, collisionCheckEnabled |-> "undefined",
       maxTransitionCost |-> Undefined],
      [interpolationSteps |-> Num(2), collisionCheckEnabled |-> "undefined",
       maxTransitionCost |-> Undefined],
      [interpolationSteps |-> Num(1), collisionCheckEnabled |-> "true",
       maxTransitionCost |-> Num(100)],
      [interpolationSteps |-> Undefined, collisionCheckEnabled |-> "false",
       maxTransitionCost |-> Undefined],
      [interpolationSteps |-> Undefined, collisionCheckEnabled |-> "undefined",
       maxTransitionCost |-> Num(200)] }

Metrics(p, c, l, e) ==
    [pathProbability |-> p, totalCost |-> c, pathLength |-> l, entropy |-> e]

MetricsSet ==
    { Metrics(Rat(9, 10), Num(500), Num(4), Rat(1, 2)),
      Metrics(Rat(1, 2), Num(2000), Num(12), Num(6)),
      Metrics(Num(0), Num(0), Num(0), Num(0)),
      Metrics(Rat(9, 10), Num(500), Num(2), Num(2)),
      Metrics(Undefined, Undefined, Num(4), Undefined) }

\* path lists: the k-th path object is [id |-> k]
\* metrics at the thresholds of the tiers: with the probability weight alone
\* the middle path of either list scores 0.6 or 0.8
ThresholdMetrics ==
    { << Metrics(Rat(1, 2), Num(2000), Num(12), Num(6)),
         Metrics(Rat(8, 10), Num(1000), Num(8), Num(3)),
         Metrics(Num(1), Num(1500), Num(6), Num(4)) >>,
      << Metrics(Rat(1, 2), Num(2000), Num(12), Num(6)),
         Metrics(Rat(9, 10), Num(500), Num(4), Rat(1, 2)),
         Metrics(Num(1), Num(1500), Num(6), Num(4)) >> }

PathLists ==
    { [k \in 1..Len(ms) |-> [path |-> [id |-> k], metrics |-> ms[k]]] :
        ms \in SeqsUpTo(MetricsSet, MaxPaths) \cup ThresholdMetrics }

CustomWeights ==
    [probability |-> Num(1), cost |-> Num(0), length |-> Num(0), entropy |-> Num(0)]

EvenWeights ==
    [probability |-> Rat(1, 4), cost |-> Rat(1, 4), length |-> Rat(1, 4),
     entropy |-> Rat(1, 4)]

RankerOptionSets == { [weights |-> Undefined], [weights |-> EvenWeights] }

RankCallOptions == { [weights |-> Undefined], [weights |-> CustomWeights] }

\* the maxDistance handed to canConnect, undefined for the default
MaxDistances == { Undefined, Num(3) }

\* the minScore handed to filter, undefined for the default
MinScores == { Undefined, Rat(8, 10) }

\* what new Date().toISOString() can return
Instants == { "2024-01-01T00:00:00.000Z", "2024-01-01T00:00:00.001Z" }

\* the weightVariations handed to sensitivityAnalysis
WeightVariationLists ==
    { <<>>, <<DefaultWeights>>, <<EvenWeights, EvenWeights>>,
      <<DefaultWeights, CustomWeights>> }

-----------------------------------------------------------------------------
(* The state machine *)

\* the options the two engines are constructed with: every planner option
\* set beside a ranker with defaults, and a planner with defaults beside
\* every ranker option set
EngineSetups ==
    { <<p, [weights |-> Undefined]>> : p \in PlannerOptionSets } \cup
    { <<[interpolationSteps |-> Undefined, collisionCheckEnabled |-> "undefined",
         maxTransitionCost |-> Undefined], r>> : r \in RankerOptionSets }

\* the arguments of no call
NoInputs ==
    [paths |-> <<>>, rankOpts |-> Undefined, rankedPaths |-> <<>>,
     pathA |-> Undefined, pathB |-> Undefined, weightVariations |-> <<>>,
     minScore |-> Undefined, configA |-> Undefined, configB |-> Undefined,
     maxDistance |-> Undefined, architecture |-> Undefined, waypoints |-> <<>>]

NoCall ==
    /\ paths = <<>> /\ rankOpts = Undefined /\ ranked = <<>>
    /\ pathA = Undefined /\ pathB = Undefined /\ weightVariations = <<>>
    /\ minScore = Undefined /\ maxDistance = Undefined /\ output = Undefined
    /\ given = NoInputs
    /\ configA = Undefined /\ configB = Undefined /\ architecture = Undefined
    /\ waypoints = <<>> /\ i = 0 /\ isValid = TRUE
    /\ totalCost = Num(0) /\ cumulativeProbability = Num(1)
    /\ result = Undefined
    /\ inWaypoints = <<>> /\ optimized = <<>> /\ current = 0 /\ farthest = 0
    /\ oi = 0 /\ promise = Undefined

\* new LocalPlanner(opts) and new PathRanker(opts)
Init ==
    /\ pc = "idle"
    /\ \E setup \in EngineSetups :
          /\ options = PlannerConstruct(setup[1])
          /\ rankerOptions = RankerConstruct(setup[2])
    /\ NoCall

Rank_SortsInput(ps, opts) ==
    /\ pc = "idle"
    /\ given' = [NoInputs EXCEPT !.paths = ps, !.rankOpts = opts]
    /\ ranked' = RankOp(ps, opts, rankerOptions)
    /\ paths' = [k \in 1..Len(ps) |->
                    [path |-> ranked'[k].path,
                     metrics |-> Metrics(ranked'[k].metrics.pathProbability,
                                         ranked'[k].metrics.totalCost,
                                         ranked'[k].metrics.pathLength,
                                         ranked'[k].metrics.entropy)]]
    /\ rankOpts' = opts
    /\ pc' = "rankDone"
    /\ UNCHANGED <<options, rankerOptions, architecture, pathA, pathB,
                   weightVariations, minScore, output>>
    /\ UNCHANGED planVars
    /\ UNCHANGED optVars

\* ranker.rank(ps, opts)
Rank(ps, opts) ==
    /\ pc = "idle"
    /\ given' = [NoInputs EXCEPT !.paths = ps, !.rankOpts = opts]
    /\ paths' = ps
    /\ rankOpts' = opts
    /\ ranked' = RankOp(ps, opts, rankerOptions)
    /\ pc' = "rankDone"
    /\ UNCHANGED <<options, rankerOptions, architecture, pathA, pathB,
                   weightVariations, minScore, output>>
    /\ UNCHANGED planVars
    /\ UNCHANGED optVars

\* ranker.sensitivityAnalysis(ps, variations)
SensitivityAnalysis(ps, variations) ==
    /\ pc = "idle"
    /\ given' = [NoInputs EXCEPT !.paths = ps, !.weightVariations = variations]
    /\ paths' = ps
    /\ weightVariations' = variations
    /\ output' = SensitivityAnalysisOp(ps, variations, rankerOptions)
    /\ pc' = "sensitivityDone"
    /\ UNCHANGED <<options, rankerOptions, architecture, rankOpts, ranked, pathA,
                   pathB, minScore>>
    /\ UNCHANGED planVars
    /\ UNCHANGED optVars

\* ranker.filter(ranked, min), ranked being what rank returned
Filter(min) ==
    /\ pc = "rankDone"
    /\ given' = [given EXCEPT !.rankedPaths = ranked, !.minScore = min]
    /\ minScore' = min
    /\ output' = FilterOp(ranked, min)
    /\ pc' = "filterDone"
    /\ UNCHANGED <<options, rankerOptions, architecture, paths, rankOpts, ranked,
                   pathA, pathB, weightVariations>>
    /\ UNCHANGED planVars
    /\ UNCHANGED optVars

\* ranker.groupByReliability(ranked), ranked being what rank returned
GroupByReliability ==
    /\ pc = "rankDone"
    /\ given' = [given EXCEPT !.rankedPaths = ranked]
    /\ output' = GroupByReliabilityOp(ranked)
    /\ pc' = "groupDone"
    /\ UNCHANGED <<options, rankerOptions, architecture, paths, rankOpts, ranked,
                   pathA, pathB, weightVariations, minScore>>
    /\ UNCHANGED planVars
    /\ UNCHANGED optVars

\* ranker.export(ranked), ranked being what rank returned
Export ==
    /\ pc = "rankDone"
    /\ given' = [given EXCEPT !.rankedPaths = ranked]
    /\ IF ExportThrows(ranked)
       THEN /\ pc' = "exportThrew"
            /\ UNCHANGED output
       ELSE /\ \E now \in Instants :
                   output' = ExportOp(ranked, now, rankerOptions)
            /\ pc' = "exportDone"
    /\ UNCHANGED <<options, rankerOptions, architecture, paths, rankOpts, ranked,
                   pathA, pathB, weightVariations, minScore>>
    /\ UNCHANGED planVars
    /\ UNCHANGED optVars

\* ranker.compare(pA, pB)
Compare(pA, pB) ==
    /\ pc = "idle"
    /\ given' = [NoInputs EXCEPT !.pathA = pA, !.pathB = pB]
    /\ pathA' = pA
    /\ pathB' = pB
    /\ output' = CompareOp(pA, pB, rankerOptions)
    /\ pc' = "compareDone"
    /\ UNCHANGED <<options, rankerOptions, architecture, paths, rankOpts, ranked,
                   weightVariations, minScore>>
    /\ UNCHANGED planVars
    /\ UNCHANGED optVars

\* planner.canConnect(cA, cB, maxDist)
CanConnect(cA, cB, maxDist) ==
    /\ pc = "idle"
    /\ given' = [NoInputs EXCEPT !.configA = cA, !.configB = cB,
                                  !.maxDistance = maxDist]
    /\ configA' = cA
    /\ configB' = cB
    /\ maxDistance' = maxDist
    /\ output' = CanConnectOp(cA, cB, maxDist)
    /\ pc' = "connectDone"
    /\ UNCHANGED <<options, rankerOptions, architecture, paths, rankOpts, ranked,
                   pathA, pathB, weightVariations, minScore, waypoints, i, isValid,
                   totalCost, cumulativeProbability, result>>
    /\ UNCHANGED optVars

\* planner.plan(cA, cB, arch) up to the head of its loop
PlanCall(cA, cB, arch) ==
    /\ pc = "idle"
    /\ given' = [NoInputs EXCEPT !.configA = cA, !.configB = cB,
                                  !.architecture = arch]
    /\ configA' = cA
    /\ configB' = cB
    /\ architecture' = arch
    /\ \E wps \in Interpolate(cA, cB, options.interpolationSteps) : waypoints' = wps
    /\ i' = PlanEntry.i
    /\ isValid' = PlanEntry.isValid
    /\ totalCost' = PlanEntry.totalCost
    /\ cumulativeProbability' = PlanEntry.cumulativeProbability
    /\ pc' = "planLoop"
    /\ UNCHANGED <<options, rankerOptions, maxDistance, result>>
    /\ UNCHANGED rankVars
    /\ UNCHANGED optVars

PlanState ==
    [i |-> i, isValid |-> isValid, totalCost |-> totalCost,
     cumulativeProbability |-> cumulativeProbability, broke |-> pc = "planBreak"]

\* one pass of the loop of plan
PlanStep ==
    /\ pc = "planLoop"
    /\ UNCHANGED given
    /\ PlanLooping(waypoints, PlanState)
    /\ LET st == PlanIter(options, waypoints, architecture, PlanState) IN
        /\ i' = st.i
        /\ isValid' = st.isValid
        /\ totalCost' = st.totalCost
        /\ cumulativeProbability' = st.cumulativeProbability
        /\ pc' = IF st.broke THEN "planBreak" ELSE "planLoop"
    /\ UNCHANGED <<options, rankerOptions, configA, configB, architecture,
                   maxDistance, waypoints, result>>
    /\ UNCHANGED rankVars
    /\ UNCHANGED optVars

\* the return statement of plan
PlanFinish ==
    /\ pc \in {"planLoop", "planBreak"}
    /\ UNCHANGED given
    /\ ~ PlanLooping(waypoints, PlanState)
    /\ result' = PlanReturn(waypoints, PlanState)
    /\ pc' = "planDone"
    /\ UNCHANGED <<options, rankerOptions, configA, configB, architecture,
                   maxDistance, waypoints, i, isValid, totalCost,
                   cumulativeProbability>>
    /\ UNCHANGED rankVars
    /\ UNCHANGED optVars

FirstCandidate_Same(cur) == cur

\* let farthest = current + 1
FirstCandidate(cur) == cur + 1

\* planner.optimizePath(wps, arch) up to the head of its while loop
OptimizePathCall(wps, arch) ==
    /\ pc = "idle"
    /\ given' = [NoInputs EXCEPT !.waypoints = wps, !.architecture = arch]
    /\ inWaypoints' = wps
    /\ architecture' = arch
    /\ IF Len(wps) <= 2
       THEN /\ optimized' = wps
            /\ pc' = "optDone"
            /\ UNCHANGED current
       ELSE /\ optimized' = <<wps[1]>>
            /\ current' = 0
            /\ pc' = "optWhile"
    /\ UNCHANGED <<options, rankerOptions, farthest, oi, promise>>
    /\ UNCHANGED rankVars
    /\ UNCHANGED planVars

\* while (current < waypoints.length - 1) { let farthest = current + 1; for (let i = ...
OptWhile ==
    /\ pc = "optWhile"
    /\ UNCHANGED given
    /\ IF current < Len(inWaypoints) - 1
       THEN /\ farthest' = FirstCandidate(current)
            /\ oi' = Len(inWaypoints) - 1
            /\ pc' = "optFor"
       ELSE /\ pc' = "optDone"
            /\ UNCHANGED <<farthest, oi>>
    /\ UNCHANGED <<options, rankerOptions, architecture, inWaypoints, optimized,
                   current, promise>>
    /\ UNCHANGED rankVars
    /\ UNCHANGED planVars

\* the for condition i > current + 1 and const result = this.plan(...)
OptFor ==
    /\ pc = "optFor"
    /\ UNCHANGED given
    /\ IF oi > current + 1
       THEN /\ \E r \in PlanResults(options, inWaypoints[current + 1],
                                    inWaypoints[oi + 1], architecture) :
                   promise' = PromiseOf(r)
            /\ pc' = "optTest"
       ELSE /\ pc' = "optPush"
            /\ UNCHANGED promise
    /\ UNCHANGED <<options, rankerOptions, architecture, inWaypoints, optimized,
                   current, farthest, oi>>
    /\ UNCHANGED rankVars
    /\ UNCHANGED planVars

\* if (result.isValid && result.cost < maxTransitionCost) { farthest = i; break } ; i--
OptTest ==
    /\ pc = "optTest"
    /\ UNCHANGED given
    /\ IF ShortcutAccepted(options, promise)
       THEN /\ farthest' = oi
            /\ pc' = "optPush"
            /\ UNCHANGED oi
       ELSE /\ oi' = oi - 1
            /\ pc' = "optFor"
            /\ UNCHANGED farthest
    /\ UNCHANGED <<options, rankerOptions, architecture, inWaypoints, optimized,
                   current, promise>>
    /\ UNCHANGED rankVars
    /\ UNCHANGED planVars

OptPush_PushesCurrent ==
    /\ pc = "optPush"
    /\ UNCHANGED given
    /\ optimized' = Append(optimized, inWaypoints[current + 1])
    /\ current' = farthest
    /\ pc' = "optWhile"
    /\ UNCHANGED <<options, rankerOptions, architecture, inWaypoints, farthest,
                   oi, promise>>
    /\ UNCHANGED rankVars
    /\ UNCHANGED planVars

\* optimized.push(waypoints[farthest]); current = farthest
OptPush ==
    /\ pc = "optPush"
    /\ UNCHANGED given
    /\ optimized' = Append(optimized, inWaypoints[farthest + 1])
    /\ current' = farthest
    /\ pc' = "optWhile"
    /\ UNCHANGED <<options, rankerOptions, architecture, inWaypoints, farthest,
                   oi, promise>>
    /\ UNCHANGED rankVars
    /\ UNCHANGED planVars

\* the caller has its result and the engine is free for the next call
Release ==
    /\ pc \in {"rankDone", "sensitivityDone", "compareDone", "filterDone",
              "groupDone", "exportDone", "exportThrew", "connectDone", "planDone",
              "optDone"}
    /\ pc' = "idle"
    /\ paths' = <<>> /\ rankOpts' = Undefined /\ ranked' = <<>>
    /\ pathA' = Undefined /\ pathB' = Undefined /\ weightVariations' = <<>>
    /\ minScore' = Undefined /\ maxDistance' = Undefined /\ output' = Undefined
    /\ given' = NoInputs
    /\ configA' = Undefined /\ configB' = Undefined /\ architecture' = Undefined
    /\ waypoints' = <<>> /\ i' = 0 /\ isValid' = TRUE
    /\ totalCost' = Num(0) /\ cumulativeProbability' = Num(1)
    /\ result' = Undefined
    /\ inWaypoints' = <<>> /\ optimized' = <<>> /\ current' = 0 /\ farthest' = 0
    /\ oi' = 0 /\ promise' = Undefined
    /\ UNCHANGED <<options, rankerOptions>>

Next ==
    \/ \E ps \in PathLists, opts \in RankCallOptions : Rank(ps, opts)
    \/ \E ps \in PathLists \ {<<>>}, variations \in WeightVariationLists :
          SensitivityAnalysis(ps, variations)
    \/ \E ps \in PathLists : Len(ps) = 2 /\ Compare(ps[1], ps[2])
    \/ \E min \in MinScores : Filter(min)
    \/ GroupByReliability
    \/ Export
    \/ \E pair \in ConfigPairs, arch \in PlanArchitectures :
          PlanCall(pair[1], pair[2], arch)
    \/ PlanStep
    \/ PlanFinish
    \/ \E pair \in ConfigPairs, maxDist \in MaxDistances :
          CanConnect(pair[1], pair[2], maxDist)
    \/ \E wps \in WaypointLists, arch \in Architectures : OptimizePathCall(wps, arch)
    \/ OptWhile
    \/ OptFor
    \/ OptTest
    \/ OptPush
    \/ Release

Spec == Init /\ [][Next]_vars

-----------------------------------------------------------------------------
(* Properties of PathRanker.rank *)

RankedIndices == 1..Len(ranked)

MetricFields == {"pathProbability", "totalCost", "pathLength", "entropy"}

NormalizedFields == {"probability", "cost", "length", "entropy"}

\* the raw value of metric f is given in every input path
AllGiven(f) == \A k \in 1..Len(paths) : paths[k].metrics[f] # Undefined

\* metric f has the same raw value in every input path
NoSpread(f) ==
    /\ AllGiven(f)
    /\ \A j, k \in 1..Len(paths) : paths[j].metrics[f] = paths[k].metrics[f]

\* the ranked item's raw value of f is the least / the greatest of the input
IsLeast(item, f) ==
    \A k \in 1..Len(paths) : RLe(item.metrics[f], paths[k].metrics[f])

IsGreatest(item, f) ==
    \A k \in 1..Len(paths) : RLe(paths[k].metrics[f], item.metrics[f])

\* C1: rank returns N items for N paths, a permutation of the input paths,
\* with rank fields 1..N in output order and compositeScore never increasing
\* along the output.
C1_RankIsSortedPermutation ==
    pc = "rankDone" =>
        /\ Len(ranked) = Len(paths)
        /\ \A k \in RankedIndices : ranked[k].rank = k
        /\ { ranked[k].path : k \in RankedIndices } =
           { paths[k].path : k \in 1..Len(paths) }
        /\ \A j, k \in RankedIndices : j # k => ranked[j].path # ranked[k].path
        /\ \A k \in 1..(Len(ranked) - 1) :
              RLe(ranked[k + 1].compositeScore, ranked[k].compositeScore)

\* C1 witness: three paths were ranked and the sort moved the first input
\* path off the first place.
C1_Witness ==
    /\ pc = "rankDone"
    /\ Len(paths) = 3
    /\ ranked[1].path # paths[1].path
    /\ RLt(ranked[3].compositeScore, ranked[1].compositeScore)

\* the item of the ranking made for the k-th input path
RankedOf(k) == FindByPath(ranked, paths[k].path, 1)

\* C17: input paths of equal compositeScore keep their input order in the
\* output of rank: of two such paths the one earlier in the input gets the
\* smaller rank.
C17_TiesKeepInputOrder ==
    pc = "rankDone" =>
        \A j, k \in 1..Len(paths) :
            (j < k /\ RankedOf(j).compositeScore = RankedOf(k).compositeScore)
                => RankedOf(j).rank < RankedOf(k).rank

\* C17 witness: the first and the third of three input paths tie behind the
\* second, which outscores them, and take ranks 2 and 3 in that order.
C17_Witness ==
    /\ pc = "rankDone"
    /\ Len(paths) = 3
    /\ RankedOf(1).compositeScore = RankedOf(3).compositeScore
    /\ RLt(RankedOf(1).compositeScore, RankedOf(2).compositeScore)
    /\ RankedOf(2).rank = 1
    /\ RankedOf(1).rank = 2
    /\ RankedOf(3).rank = 3

\* C20: rank called with an empty path set raises an error; it never returns
\* a result for it.
C20_EmptyRankFails ==
    pc = "rankDone" => given.paths # <<>>

\* C3: when every path has the same totalCost (0 included), every ranked
\* path's normalized cost is exactly 0.5; likewise for any metric without
\* spread.
C3_NoSpreadIsHalf ==
    pc = "rankDone" =>
        /\ NoSpread("pathProbability") =>
              \A k \in RankedIndices : ranked[k].metrics.normalized.probability = Rat(1, 2)
        /\ NoSpread("totalCost") =>
              \A k \in RankedIndices : ranked[k].metrics.normalized.cost = Rat(1, 2)
        /\ NoSpread("pathLength") =>
              \A k \in RankedIndices : ranked[k].metrics.normalized.length = Rat(1, 2)
        /\ NoSpread("entropy") =>
              \A k \in RankedIndices : ranked[k].metrics.normalized.entropy = Rat(1, 2)

\* C7: a metric with spread is normalized against the least and greatest raw
\* values of the input: the greatest pathProbability gets 1 and the least 0;
\* for totalCost, pathLength and entropy the least gets 1 and the greatest 0.
C7_NormalizedAgainstObservedRange ==
    pc = "rankDone" =>
        /\ (AllGiven("pathProbability") /\ ~ NoSpread("pathProbability")) =>
              \A k \in RankedIndices :
                 /\ IsGreatest(ranked[k], "pathProbability") =>
                       ranked[k].metrics.normalized.probability = Num(1)
                 /\ IsLeast(ranked[k], "pathProbability") =>
                       ranked[k].metrics.normalized.probability = Num(0)
        /\ (AllGiven("totalCost") /\ ~ NoSpread("totalCost")) =>
              \A k \in RankedIndices :
                 /\ IsLeast(ranked[k], "totalCost") =>
                       ranked[k].metrics.normalized.cost = Num(1)
                 /\ IsGreatest(ranked[k], "totalCost") =>
                       ranked[k].metrics.normalized.cost = Num(0)
        /\ (AllGiven("pathLength") /\ ~ NoSpread("pathLength")) =>
              \A k \in RankedIndices :
                 /\ IsLeast(ranked[k], "pathLength") =>
                       ranked[k].metrics.normalized.length = Num(1)
                 /\ IsGreatest(ranked[k], "pathLength") =>
                       ranked[k].metrics.normalized.length = Num(0)
        /\ (AllGiven("entropy") /\ ~ NoSpread("entropy")) =>
              \A k \in RankedIndices :
                 /\ IsLeast(ranked[k], "entropy") =>
                       ranked[k].metrics.normalized.entropy = Num(1)
                 /\ IsGreatest(ranked[k], "entropy") =>
                       ranked[k].metrics.normalized.entropy = Num(0)

\* C8: each of the four normalized metrics of every ranked path lies in
\* [0, 1], also when a raw value is 0 or absent.
C8_NormalizedInUnitInterval ==
    pc = "rankDone" =>
        \A k \in RankedIndices : \A f \in NormalizedFields :
            /\ RLe(Num(0), ranked[k].metrics.normalized[f])
            /\ RLe(ranked[k].metrics.normalized[f], Num(1))

\* C8 witness: a ranked set holding a path without totalCost and a path with
\* totalCost 0, in which some normalized metric lies strictly inside (0, 1)
\* away from the midpoint.
C8_Witness ==
    /\ pc = "rankDone"
    /\ \E k \in RankedIndices : ranked[k].metrics.totalCost = Undefined
    /\ \E k \in RankedIndices : ranked[k].metrics.totalCost = Num(0)
    /\ \E k \in RankedIndices : \E f \in NormalizedFields :
          /\ RLt(Num(0), ranked[k].metrics.normalized[f])
          /\ RLt(ranked[k].metrics.normalized[f], Num(1))
          /\ ranked[k].metrics.normalized[f] # Rat(1, 2)

-----------------------------------------------------------------------------
(* Frame of the operations of both engines *)

\* a later operation was handed the ranking that rank returned
RankingHandedOn == pc \in {"filterDone", "groupDone", "exportDone", "exportThrew"}

\* the caller's arguments as they are now
InputsNow ==
    [paths |-> paths, rankOpts |-> rankOpts,
     rankedPaths |-> IF RankingHandedOn THEN ranked ELSE <<>>,
     pathA |-> pathA, pathB |-> pathB, weightVariations |-> weightVariations,
     minScore |-> minScore, configA |-> configA, configB |-> configB,
     maxDistance |-> maxDistance, architecture |-> architecture,
     waypoints |-> inWaypoints]

\* C13: no operation of either engine changes the engine's options or its
\* caller-supplied inputs: at every point of a call, and after it, the
\* configurations, the architecture, the input waypoint list, the input path
\* list with each path's metrics and the other arguments equal what was
\* handed in, and they stay so over a following call on the returned ranking.
C13_InputsAndOptionsUnchanged ==
    [][ /\ options' = options
        /\ rankerOptions' = rankerOptions
        /\ pc' # "idle" => InputsNow' = given'
        /\ (pc # "idle" /\ pc' # "idle") =>
              \A f \in DOMAIN given :
                 given[f] # NoInputs[f] => given'[f] = given[f] ]_vars

\* C13 witness: export returned for a ranking of three paths whose order
\* differs from the input's, the input list being as it was handed to rank.
C13_Witness ==
    /\ pc = "exportDone"
    /\ Len(paths) = 3
    /\ ranked[1].path # paths[1].path
    /\ given.rankedPaths = ranked
    /\ paths = given.paths

-----------------------------------------------------------------------------
(* Properties of the other PathRanker operations *)

\* every entry of weightVariations is the ranker's current weight set
AllCurrentWeights ==
    \A k \in 1..Len(weightVariations) : weightVariations[k] = rankerOptions.weights

\* C11: for a non-empty path set, sensitivityAnalysis reports stability 1 and
\* change 0 for every path of every variant when each entry of
\* weightVariations equals the ranker's current weight set.
C11_SameWeightsAreStable ==
    (pc = "sensitivityDone" /\ AllCurrentWeights) =>
        /\ output.stability = Num(1)
        /\ \A a \in 1..Len(output.analyses) :
              \A k \in 1..Len(output.analyses[a].rankChanges) :
                 output.analyses[a].rankChanges[k].change = 0

\* C11 witness: two variants equal to the current (non-default) weights were
\* analysed over three paths that the base ranking reorders.
C11_Witness ==
    /\ pc = "sensitivityDone"
    /\ AllCurrentWeights
    /\ Len(weightVariations) = 2
    /\ Len(paths) = 3
    /\ output.baseRanking[1].path # paths[1].path
    /\ Len(output.analyses[2].rankChanges) = 3
    /\ output.stability = Num(1)

\* pathProbability of a ranked item is given and greater than bound
ProbabilityOver(item, bound) ==
    /\ item.metrics.pathProbability # Undefined
    /\ RLt(bound, item.metrics.pathProbability)

ScoreOfA == RankItem(pathA, <<pathA, pathB>>, rankerOptions.weights).compositeScore

ScoreOfB == RankItem(pathB, <<pathA, pathB>>, rankerOptions.weights).compositeScore

\* C16: compare(pathA, pathB) ranks the set of the two paths and reports
\* winner A when pathA's composite score is at least pathB's and B when
\* pathB's is strictly greater; scoreDifference is the absolute difference
\* of the two scores and significant holds iff it is strictly over 0.1.
C16_CompareWinner ==
    pc = "compareDone" =>
        /\ RLe(ScoreOfB, ScoreOfA) => output.winner = "A"
        /\ RLt(ScoreOfA, ScoreOfB) => output.winner = "B"
        /\ output.scoreDifference = RAbs(RSub(ScoreOfA, ScoreOfB))
        /\ output.significant <=> RLt(Rat(1, 10), output.scoreDifference)
        /\ output.details.pathA.path = pathA.path
        /\ output.details.pathB.path = pathB.path

\* C16 witness: pathB scored strictly higher by more than 0.1 and won.
C16_Witness ==
    /\ pc = "compareDone"
    /\ RLt(RAdd(ScoreOfA, Rat(1, 10)), ScoreOfB)
    /\ output.winner = "B"
    /\ output.significant

\* the weight set rank used for the composite scores of ranked
UsedWeights ==
    IF rankOpts.weights = Undefined THEN rankerOptions.weights ELSE rankOpts.weights

\* C12: the weights field of export(rankedPaths) is the weight set that was
\* used to compute the composite scores of rankedPaths, with the instance
\* defaults as well as with caller-supplied options.weights.
C12_ExportReportsUsedWeights ==
    pc = "exportDone" =>
        /\ output.weights = UsedWeights
        /\ \A k \in RankedIndices :
              ranked[k].compositeScore =
                 CalculateCompositeScore(ranked[k].metrics.normalized, output.weights)

-----------------------------------------------------------------------------
(* Properties of LocalPlanner.plan *)

\* 1-based positions in waypoints of the intermediate waypoints, the
\* 0-based indices 1..interpolationSteps-1 of the code
Intermediate == 2..(Len(waypoints) - 1)

PlanRunning == pc \in {"planLoop", "planBreak", "planDone"}

\* the clauses of the validity rule, read off the configuration and the
\* architecture themselves
HasInputAndOutput(config) ==
    /\ \E p \in 1..Len(config.layerSequence) : config.layerSequence[p] = "Input"
    /\ \E p \in 1..Len(config.layerSequence) : config.layerSequence[p] = "Output"

ListedDependencies(arch, layer) ==
    IF arch.layerDependencies = Undefined THEN {}
    ELSE IF layer \notin DOMAIN arch.layerDependencies THEN {}
    ELSE { arch.layerDependencies[layer][d] :
              d \in 1..Len(arch.layerDependencies[layer]) }

DependenciesComeEarlier(config, arch) ==
    \A p \in 2..Len(config.layerSequence) :
        \A dep \in ListedDependencies(arch, config.layerSequence[p]) :
            \E q \in 1..(p - 1) : config.layerSequence[q] = dep

Present(arch, field) ==
    arch.constraints # Undefined /\ arch.constraints[field] # Undefined

WithinMaxTokens(config, arch) ==
    Present(arch, "maxTokens") =>
        RLe(Num(config.tokenCost), arch.constraints.maxTokens)

AtLeastMinConfidence(config, arch) ==
    Present(arch, "minConfidence") =>
        RLe(arch.constraints.minConfidence, config.confidenceThreshold)

\* C14: a configuration is judged valid against an architecture exactly when
\* its layerSequence holds Input and Output, every dependency listed for the
\* layer at a position past the first occurs at an earlier position,
\* tokenCost is at most maxTokens when that is present and
\* confidenceThreshold is at least minConfidence when that is present; an
\* absent constraint or constraints object invalidates nothing.
C14_ValidityRule ==
    PlanRunning =>
        \A k \in 1..Len(waypoints) :
            IsValidConfig(waypoints[k], architecture) <=>
                ( /\ HasInputAndOutput(waypoints[k])
                  /\ DependenciesComeEarlier(waypoints[k], architecture)
                  /\ WithinMaxTokens(waypoints[k], architecture)
                  /\ AtLeastMinConfidence(waypoints[k], architecture) )

\* C14 witness: plan judged a waypoint over 2000 tokens valid against an
\* architecture whose constraints object has no maxTokens, although its
\* sequence starts with a layer that has a listed dependency.
C14_Witness ==
    /\ PlanRunning
    /\ architecture = ArchPartial
    /\ \E k \in 1..Len(waypoints) :
          /\ waypoints[k].tokenCost >= 2000
          /\ ListedDependencies(architecture, waypoints[k].layerSequence[1]) # {}
          /\ IsValidConfig(waypoints[k], architecture)

\* C4: with collision checking enabled, an intermediate waypoint that fails
\* validity makes plan return isValid = false and no waypoints, however many
\* valid waypoints come before it.
C4_InvalidIntermediateRejects ==
    ( /\ pc = "planDone"
      /\ options.collisionCheckEnabled
      /\ \E k \in Intermediate : ~ IsValidConfig(waypoints[k], architecture) )
    => ( ~ result.isValid /\ result.waypoints = <<>> )

\* C4 witness: plan returned with the first three waypoints valid, a later
\* intermediate one invalid and the cost limit kept, and rejected the
\* transition.
C4_Witness ==
    /\ pc = "planDone"
    /\ options.collisionCheckEnabled
    /\ Len(waypoints) = 6
    /\ \A k \in 1..3 : IsValidConfig(waypoints[k], architecture)
    /\ \E k \in Intermediate : ~ IsValidConfig(waypoints[k], architecture)
    /\ RLe(result.cost, options.maxTransitionCost)
    /\ ~ result.isValid
    /\ result.waypoints = <<>>

\* C21: with collision checking enabled, when plan returns isValid = true
\* every waypoint of the returned sequence, the last one (the copy of
\* configB) included, is valid against the architecture.
C21_ReturnedWaypointsValid ==
    ( /\ pc = "planDone"
      /\ options.collisionCheckEnabled
      /\ result.isValid )
    => \A k \in 1..Len(result.waypoints) :
          IsValidConfig(result.waypoints[k], architecture)

\* the tokens of a layer sequence
Tokens(seq) == { seq[p] : p \in 1..Len(seq) }

NoTokenTwice(seq) == \A p, q \in 1..Len(seq) : p # q => seq[p] # seq[q]

\* C22: whatever the random choices, the layer sequence of a waypoint blended
\* at 0 < t < 1 holds Input and Output, holds no token twice and holds only
\* tokens of seqA, seqB, Input and Output; the one at t = 0 is seqA and the
\* one at t = 1 is seqB, unrepaired.
C22_BlendedSequences ==
    PlanRunning =>
        /\ Len(waypoints) = options.interpolationSteps + 1
        /\ waypoints[1].layerSequence = configA.layerSequence
        /\ waypoints[Len(waypoints)].layerSequence = configB.layerSequence
        /\ \A k \in Intermediate :
              /\ "Input" \in Tokens(waypoints[k].layerSequence)
              /\ "Output" \in Tokens(waypoints[k].layerSequence)
              /\ NoTokenTwice(waypoints[k].layerSequence)
              /\ Tokens(waypoints[k].layerSequence) \subseteq
                    (Tokens(configA.layerSequence) \cup Tokens(configB.layerSequence)
                        \cup {"Input", "Output"})

\* C22 witness: between two different sequences of four layers one blend
\* dropped a token that both choices gave and has three layers, and the
\* endpoints are the two sequences.
C22_Witness ==
    /\ PlanRunning
    /\ configA.layerSequence # configB.layerSequence
    /\ Len(configA.layerSequence) = 4
    /\ Len(configB.layerSequence) = 4
    /\ \E k \in Intermediate : Len(waypoints[k].layerSequence) = 3
    /\ waypoints[1].layerSequence = configA.layerSequence
    /\ waypoints[Len(waypoints)].layerSequence = configB.layerSequence

\* C5: numSteps is interpolationSteps + 1 whether or not the transition is
\* valid; waypoints is the whole interpolated sequence of that length when
\* isValid holds and is empty when it does not.
C5_NumStepsAndWaypoints ==
    pc = "planDone" =>
        /\ result.numSteps = options.interpolationSteps + 1
        /\ result.isValid =>
              /\ result.waypoints = waypoints
              /\ Len(result.waypoints) = options.interpolationSteps + 1
        /\ ~ result.isValid => result.waypoints = <<>>

\* C5 witness: an invalid transition over 5 steps reported 6 steps and no
\* waypoints.
C5_Witness ==
    /\ pc = "planDone"
    /\ options.interpolationSteps = 5
    /\ ~ result.isValid
    /\ result.numSteps = 6
    /\ result.waypoints = <<>>

\* C6: interpolating a configuration against itself over 5 steps gives 6
\* waypoints, each with A's confidenceThreshold, parallelizationFactor,
\* tokenCost (0 when A has none), processingMode and layerSequence.
C6_SelfInterpolationIsIdentity ==
    ( /\ PlanRunning
      /\ configA = configB
      /\ options.interpolationSteps = 5 )
    => /\ Len(waypoints) = 6
       /\ \A k \in 1..Len(waypoints) :
             /\ waypoints[k].confidenceThreshold = configA.confidenceThreshold
             /\ waypoints[k].parallelizationFactor = configA.parallelizationFactor
             /\ Num(waypoints[k].tokenCost) = OrElse(configA.tokenCost, Num(0))
             /\ waypoints[k].processingMode = configA.processingMode
             /\ waypoints[k].layerSequence = configA.layerSequence

InUnitInterval(x) == RLe(Num(0), x) /\ RLe(x, Num(1))

C9_CostLimit ==
    /\ pc = "planLoop" => RLe(totalCost, options.maxTransitionCost)
    /\ pc = "planDone" =>
          /\ result.isValid => RLe(result.cost, options.maxTransitionCost)
          /\ RLt(options.maxTransitionCost, result.cost) =>
                (~ result.isValid /\ result.waypoints = <<>>)

\* C9 witness: plan returned invalid over the cost limit having stopped
\* before the last waypoint pair, every waypoint it looked at being valid.
C9_Witness ==
    /\ pc = "planDone"
    /\ RLt(options.maxTransitionCost, result.cost)
    /\ i < Len(waypoints) - 2
    /\ \A k \in 1..(i + 1) : IsValidConfig(waypoints[k], architecture)
    /\ ~ result.isValid
    /\ result.waypoints = <<>>

\* C10: while plan runs its loop the accumulated cost is non-negative and
\* never decreases from one pair to the next; a pair that is costed adds at
\* least the base cost.
C10_CostMonotone ==
    [][ pc = "planLoop" =>
          /\ RLe(Num(0), totalCost)
          /\ RLe(totalCost, totalCost')
          /\ totalCost' # totalCost => RLe(RAdd(totalCost, Num(30)), totalCost') ]_vars

\* C10 witness: three pairs were costed and penalties were added on top of
\* the base cost.
C10_Witness ==
    /\ pc = "planLoop"
    /\ i = 3
    /\ RLt(Num(90), totalCost)

-----------------------------------------------------------------------------
(* Properties of LocalPlanner.optimizePath *)

\* every value plan can return for the first and last input waypoint
DirectPlans ==
    PlanResults(options, inWaypoints[1], inWaypoints[Len(inWaypoints)], architecture)

\* the last index of the input waypoint list, counted from 0 as in the code
LastIndex == Len(inWaypoints) - 1

\* C19: optimizePath terminates: every pass of the outer loop moves current
\* strictly forward and never past the last index, the scan of the inner loop
\* moves strictly down towards current, the outer loop is left exactly when
\* current is the last index, and by then it has made at most length - 1
\* passes (one waypoint pushed per pass).
C19_CursorAdvances ==
    [][ /\ pc = "optPush" => (current < current' /\ current' <= LastIndex)
        /\ (pc = "optTest" /\ pc' = "optFor") => (current < oi' /\ oi' < oi)
        /\ (pc = "optWhile" /\ pc' = "optFor") => current < LastIndex
        /\ (pc = "optWhile" /\ pc' = "optDone") =>
              /\ current = LastIndex
              /\ Len(optimized) - 1 <= LastIndex
        /\ pc \in {"optWhile", "optFor", "optTest", "optPush"} =>
              /\ Len(optimized) - 1 <= current
              /\ pc' \in {"optWhile", "optFor", "optTest", "optPush", "optDone"} ]_vars

\* C19 witness: on a list of three waypoints the outer loop ended with
\* current at the last index after two passes.
C19_Witness ==
    /\ pc = "optDone"
    /\ Len(inWaypoints) = 3
    /\ current = 2
    /\ Len(optimized) = 3

\* the ways of reading optimized off inWaypoints at strictly increasing
\* positions, from the first position to the last
Selections ==
    { f \in [1..Len(optimized) -> 1..Len(inWaypoints)] :
        /\ f[1] = 1
        /\ f[Len(optimized)] = Len(inWaypoints)
        /\ \A k \in 1..(Len(optimized) - 1) : f[k] < f[k + 1]
        /\ \A k \in 1..Len(optimized) : optimized[k] = inWaypoints[f[k]] }

\* C23: for a non-empty waypoint list the result of optimizePath is a
\* subsequence of the input taken at strictly increasing indices, starting
\* with the input's first waypoint and ending with its last; a list of at
\* most 2 waypoints is returned unchanged.
C23_ResultIsSubsequence ==
    pc = "optDone" =>
        /\ Selections # {}
        /\ optimized[1] = inWaypoints[1]
        /\ optimized[Len(optimized)] = inWaypoints[Len(inWaypoints)]
        /\ Len(inWaypoints) <= 2 => optimized = inWaypoints

\* C23 witness: optimizePath returned for three different waypoints, having
\* gone through its loop.
C23_Witness ==
    /\ pc = "optDone"
    /\ Len(inWaypoints) = 3
    /\ inWaypoints[1] # inWaypoints[2]
    /\ inWaypoints[2] # inWaypoints[3]
    /\ inWaypoints[1] # inWaypoints[3]
    /\ current = 2
    /\ Selections # {}

\* C2: on a path of more than 2 waypoints, when the plan from the first to
\* the last waypoint is valid and within maxTransitionCost, optimizePath
\* returns just those two waypoints.
C2_DirectShortcutTaken ==
    ( /\ pc = "optDone"
      /\ Len(inWaypoints) > 2
      /\ \A r \in DirectPlans :
            r.isValid /\ RLt(r.cost, options.maxTransitionCost) )
    => optimized = <<inWaypoints[1], inWaypoints[Len(inWaypoints)]>>

====
